---------------------------- MODULE Spec2Model ----------------------------
(***************************************************************************)
(* Model of psyuktha/web_security_automation:                              *)
(*   - the Structure Consolidator, backend/scripts/update_structure.py     *)
(*   - the Scan Session, zap.py (the same class is in backend/services.py) *)
(*                                                                         *)
(* Text is modelled as a sequence of one-character strings, so that        *)
(* urlparse, strip, upper, startswith and endswith are computed and not    *)
(* assumed.  Descriptions (feedback) are only ever tested for emptiness    *)
(* and copied, so they are plain strings.                                  *)
(***************************************************************************)
EXTENDS Integers, Sequences, FiniteSets, TLC

VARIABLES
    \* ---- Structure Consolidator (update_structure.py) ----
    cfs,        \* the two input files: name -> parsed JSON, absent names are not in the domain
    backups,    \* timestamp -> snapshot content written by --backup
    clock,      \* datetime.now() at one-second resolution
    runs,       \* number of consolidator invocations so far
    argv,       \* the command line of the last invocation: the --backup flag
    report,     \* what the last invocation printed
    exitCode,   \* exit status of the last invocation
    procs,      \* invocations running side by side: where each is in main(), what it
                \* loaded and its --backup flag
    \* ---- Scan Session (zap.py) ----
    pc,                     \* position of run_scan
    target,                 \* self.target_url, as its scheme and the validator's GET outcome
    discovered_endpoints,   \* self.discovered_endpoints (set)
    forms,                  \* self.forms (list)
    attack_surfaces,        \* self.attack_surfaces (list)
    subdomains,             \* self.subdomains (set)
    sfiles,                 \* files under output_dir: name -> content; scan.log holds its distinct lines
    remote,                 \* what the scan engine will answer: spider results and alerts
    cursor,                 \* loop positions: remaining urls / prefixes / endpoints, and the
                            \* answers to the probes of the running subdomain loop
    net,                    \* the validator's GET, whether the last call of the monitor was a poll or a sleep,
                            \* and what the loop test last read
    \* ---- a single call of a pure function of update_structure.py ----
    call                    \* the function, its argument and the value it returned

cvars == <<cfs, backups, clock, runs, argv, report, exitCode, procs>>
svars == <<pc, target, discovered_endpoints, forms, attack_surfaces, subdomains,
           sfiles, remote, cursor, net>>
vars == <<cfs, backups, clock, runs, argv, report, exitCode, procs,
          pc, target, discovered_endpoints, forms, attack_surfaces, subdomains,
          sfiles, remote, cursor, net, call>>

-----------------------------------------------------------------------------
(* Bounds of the model *)

MaxForms == 3       \* longest form catalog read by the consolidator
MaxRuns == 2        \* consolidator invocations in one behaviour
MaxUrls == 2        \* longest spider result list
MaxAlerts == 2      \* longest alert list
MaxPrefixes == 2    \* how many of the candidate prefixes are probed
MaxLen == 5         \* longest enumerated action string given to normalize_action
MaxSurfaces == 3    \* longest attack-surface list the description index is built from
MaxProcs == 2       \* consolidator invocations started side by side on the same files

-----------------------------------------------------------------------------
(* Text: Python str operations on sequences of characters *)

Lowers == <<"a","b","c","d","e","f","g","h","i","j","k","l","m",
            "n","o","p","q","r","s","t","u","v","w","x","y","z">>
Uppers == <<"A","B","C","D","E","F","G","H","I","J","K","L","M",
            "N","O","P","Q","R","S","T","U","V","W","X","Y","Z">>
\* the characters of the model in code-point order
AsciiOrder == <<" ", "#", "+", "-", ".", "/", ":", "?">> \o Uppers \o Lowers

Range(s) == {s[i] : i \in DOMAIN s}
Alpha == Range(Lowers) \cup Range(Uppers)
SchemeChars == Alpha \cup {"+", "-", "."}
Whitespace == {" "}

CharCode(c) == CHOOSE i \in DOMAIN AsciiOrder : AsciiOrder[i] = c

ToUpperChar(c) ==
    IF c \in Range(Lowers) THEN Uppers[CHOOSE i \in DOMAIN Lowers : Lowers[i] = c] ELSE c
ToLowerChar(c) ==
    IF c \in Range(Uppers) THEN Lowers[CHOOSE i \in DOMAIN Uppers : Uppers[i] = c] ELSE c

\* str.upper(), str.lower()
Upper(s) == [i \in DOMAIN s |-> ToUpperChar(s[i])]
Lower(s) == [i \in DOMAIN s |-> ToLowerChar(s[i])]

\* s[from:] and s[:to]
Drop(s, n) == SubSeq(s, n + 1, Len(s))
Take(s, n) == SubSeq(s, 1, n)

\* str.lstrip(), str.rstrip(), str.strip()
LStrip(s) ==
    LET keep == {i \in DOMAIN s : s[i] \notin Whitespace}
    IN IF keep = {} THEN <<>>
       ELSE Drop(s, (CHOOSE i \in keep : \A j \in keep : i <= j) - 1)
RStrip(s) ==
    LET keep == {i \in DOMAIN s : s[i] \notin Whitespace}
    IN IF keep = {} THEN <<>>
       ELSE Take(s, CHOOSE i \in keep : \A j \in keep : i >= j)
Strip(s) == RStrip(LStrip(s))

\* str.startswith(p), str.endswith(p)
StartsWith(s, p) == Len(p) <= Len(s) /\ Take(s, Len(p)) = p
EndsWith(s, p) == Len(p) <= Len(s) /\ Drop(s, Len(s) - Len(p)) = p

\* index of the first character of s that is in C, 0 when there is none (str.find)
Find(s, C) ==
    LET hits == {i \in DOMAIN s : s[i] \in C}
    IN IF hits = {} THEN 0 ELSE CHOOSE i \in hits : \A j \in hits : i <= j

\* s < t in Python's string order
RECURSIVE StrLess(_, _)
StrLess(s, t) ==
    IF t = <<>> THEN FALSE
    ELSE IF s = <<>> THEN TRUE
    ELSE IF s[1] # t[1] THEN CharCode(s[1]) < CharCode(t[1])
    ELSE StrLess(Tail(s), Tail(t))

\* s up to the first occurrence of the character c (all of s when there is none)
CutAt(s, c) == IF Find(s, {c}) = 0 THEN s ELSE Take(s, Find(s, {c}) - 1)

\* urllib.parse.urlparse(url), the three components the program reads, computed
\* left to right as urlsplit does: leading whitespace, scheme, netloc, then the
\* path up to '#' or '?'.  (No ';' and no '[' occur in the model's texts, so
\* params and the IPv6 bracket check never apply.)
ParsePath(scheme, netloc, rest) ==
    [scheme |-> scheme, netloc |-> netloc, path |-> CutAt(CutAt(rest, "#"), "?")]

ParseAuthority(scheme, rest, d) ==
    IF d = 0 THEN ParsePath(scheme, rest, <<>>)
    ELSE ParsePath(scheme, Take(rest, d - 1), Drop(rest, d - 1))

ParseNetloc(scheme, rest) ==
    IF StartsWith(rest, <<"/", "/">>)
    THEN ParseAuthority(scheme, Drop(rest, 2), Find(Drop(rest, 2), {"/", "?", "#"}))
    ELSE ParsePath(scheme, <<>>, rest)

ParseScheme(u, i) ==
    IF i > 1 /\ u[1] \in Alpha /\ \A k \in 1..(i - 1) : u[k] \in SchemeChars
    THEN ParseNetloc(Lower(Take(u, i - 1)), Drop(u, i))
    ELSE ParseNetloc(<<>>, u)

ParseStripped(u) == ParseScheme(u, Find(u, {":"}))

UrlParse(url) == ParseStripped(LStrip(url))

-----------------------------------------------------------------------------
(* Python dict and list helpers *)

\* d.get(k, default)
Get(d, k, default) == IF k \in DOMAIN d THEN d[k] ELSE default

\* d[k] = v
SetKey(d, k, v) == [x \in (DOMAIN d) \cup {k} |-> IF x = k THEN v ELSE d[x]]

\* An insertion-ordered dict is a sequence of [path, desc] entries with distinct paths.
HasPath(m, path) == \E i \in DOMAIN m : m[i].path = path

\* m[path] = desc: an existing key keeps its position and takes the new value
DictAssign(m, path, desc) ==
    IF HasPath(m, path)
    THEN [i \in DOMAIN m |-> IF m[i].path = path THEN [path |-> path, desc |-> desc] ELSE m[i]]
    ELSE Append(m, [path |-> path, desc |-> desc])

-----------------------------------------------------------------------------
(* update_structure.py: pure functions *)

\* sorted() of a list of (name, type, required) tuples
TupleLess(a, b) ==
    IF a[1] # b[1] THEN StrLess(a[1], b[1])
    ELSE IF a[2] # b[2] THEN StrLess(a[2], b[2])
    ELSE (~a[3]) /\ b[3]

RECURSIVE InsertSorted(_, _)
InsertSorted(s, x) ==
    IF s = <<>> THEN <<x>>
    ELSE IF TupleLess(x, s[1]) THEN <<x>> \o s
    ELSE <<s[1]>> \o InsertSorted(Tail(s), x)

RECURSIVE Sorted(_)
Sorted(s) == IF s = <<>> THEN <<>> ELSE InsertSorted(Sorted(Tail(s)), s[1])

InputSig(inp) ==
    << Strip(Get(inp, "name", <<>>)), Strip(Get(inp, "type", <<>>)), Get(inp, "required", FALSE) >>

\* a slip that leaves the inputs in document order
form_signature_unsorted(form) ==
    LET action == Strip(Get(form, "action", <<>>))
        method == Strip(Upper(Get(form, "method", <<>>)))
        inputs == Get(form, "inputs", <<>>)
    IN <<action, method, [i \in DOMAIN inputs |-> InputSig(inputs[i])]>>

form_signature(form) ==
    LET action == Strip(Get(form, "action", <<>>))
        method == Strip(Upper(Get(form, "method", <<>>)))
        inputs == Get(form, "inputs", <<>>)
        inputs_sig == Sorted([i \in DOMAIN inputs |-> InputSig(inputs[i])])
    IN <<action, method, inputs_sig>>

\* path = p.path or '/'
OrRoot(path) == IF path = <<>> THEN <<"/">> ELSE path

\* a slip that removes every trailing slash
TrimSlash_all(path) ==
    IF path = <<>> THEN path
    ELSE IF \A i \in DOMAIN path : path[i] = "/" THEN <<"/">>
    ELSE Take(path, CHOOSE i \in DOMAIN path :
                        path[i] # "/" /\ \A j \in (i + 1)..Len(path) : path[j] = "/")

\* if path != '/' and path.endswith('/'): path = path[:-1]
TrimSlash(path) ==
    IF path # <<"/">> /\ EndsWith(path, <<"/">>) THEN Take(path, Len(path) - 1) ELSE path

\* if not path.startswith('/'): path = '/' + path
LeadSlash(path) == IF StartsWith(path, <<"/">>) THEN path ELSE <<"/">> \o path

\* the key build_description_map computes for one url
PathKey(url) == TrimSlash(OrRoot(UrlParse(url).path))

RECURSIVE AddSurfaces(_, _)
AddSurfaces(m, items) ==
    IF items = <<>> THEN m
    ELSE LET url == Get(items[1], "url", <<>>)
             desc == Get(items[1], "description", "")
         IN AddSurfaces(IF url = <<>> THEN m ELSE DictAssign(m, PathKey(url), desc),
                        Tail(items))

RECURSIVE AddEndpoints(_, _)
AddEndpoints(m, es) ==
    IF es = <<>> THEN m
    ELSE AddEndpoints(IF HasPath(m, PathKey(es[1])) THEN m
                      ELSE DictAssign(m, PathKey(es[1]), ""),
                      Tail(es))

build_description_map(endpoints_data) ==
    AddEndpoints(AddSurfaces(<<>>, Get(endpoints_data, "attack_surfaces", <<>>)),
                 Get(endpoints_data, "endpoints", <<>>))

\* the path normalize_action takes from the parsed action
ActionPath(action, p) ==
    IF p.scheme # <<>> /\ p.netloc # <<>> THEN OrRoot(p.path) ELSE action

normalize_action(action) ==
    IF action = <<>> THEN <<"/">>
    ELSE TrimSlash(LeadSlash(ActionPath(action, UrlParse(action))))

\* desc_map.get(norm_action): "" stands for both an empty description and no entry,
\* the two are not told apart by "if description:"
ExactDesc(desc_map, norm_action) ==
    IF HasPath(desc_map, norm_action)
    THEN desc_map[CHOOSE i \in DOMAIN desc_map : desc_map[i].path = norm_action].desc
    ELSE ""

\* the fuzzy loop: the first entry in insertion order that matches by suffix and has a description
FuzzyHits(desc_map, norm_action) ==
    {i \in DOMAIN desc_map :
        /\ EndsWith(desc_map[i].path, norm_action) \/ EndsWith(norm_action, desc_map[i].path)
        /\ desc_map[i].desc # ""}

\* a slip that lets a later matching entry replace an earlier one
FuzzyDesc_last(desc_map, norm_action) ==
    LET hits == FuzzyHits(desc_map, norm_action)
    IN IF hits = {} THEN ""
       ELSE desc_map[CHOOSE i \in hits : \A j \in hits : i >= j].desc

FuzzyDesc(desc_map, norm_action) ==
    LET hits == FuzzyHits(desc_map, norm_action)
    IN IF hits = {} THEN ""
       ELSE desc_map[CHOOSE i \in hits : \A j \in hits : i <= j].desc

\* a slip that runs the fuzzy loop before the exact lookup
Attach_fuzzy_first(g, description, fuzzy) ==
    IF fuzzy # "" THEN SetKey(g, "feedback", fuzzy)
    ELSE IF description # "" THEN SetKey(g, "feedback", description)
    ELSE IF "feedback" \in DOMAIN g THEN g
    ELSE SetKey(g, "feedback", "")

\* a slip that leaves out the setdefault of the last branch
Attach_no_default(g, description, fuzzy) ==
    IF description # "" THEN SetKey(g, "feedback", description)
    ELSE IF fuzzy # "" THEN SetKey(g, "feedback", fuzzy)
    ELSE g

\* a slip that assigns f['feedback'] = '' where the code has setdefault
Attach_assign_empty(g, description, fuzzy) ==
    IF description # "" THEN SetKey(g, "feedback", description)
    ELSE IF fuzzy # "" THEN SetKey(g, "feedback", fuzzy)
    ELSE SetKey(g, "feedback", "")

\* the feedback main's loop leaves on a kept form g, given the exact and the fuzzy match
Attach(g, description, fuzzy) ==
    IF description # "" THEN SetKey(g, "feedback", description)
    ELSE IF fuzzy # "" THEN SetKey(g, "feedback", fuzzy)
    ELSE IF "feedback" \in DOMAIN g THEN g
    ELSE SetKey(g, "feedback", "")

AnnotateAs(f, norm_action, desc_map) ==
    Attach(SetKey(f, "action", norm_action),
           ExactDesc(desc_map, norm_action),
           FuzzyDesc(desc_map, norm_action))

\* the body of main's loop for a form that is kept
Annotate(f, desc_map) == AnnotateAs(f, normalize_action(Get(f, "action", <<>>)), desc_map)

\* whether main's loop skips forms[i] as a duplicate
IsDuplicate(fs, i) == \E j \in 1..(i - 1) : form_signature(fs[j]) = form_signature(fs[i])

\* a slip that puts each kept form in front of the earlier ones
DedupStep_prepend(acc, f, sig, desc_map) ==
    IF sig \in acc.seen
    THEN [acc EXCEPT !.duplicates = @ + 1]
    ELSE [seen |-> acc.seen \cup {sig},
          unique_forms |-> <<Annotate(f, desc_map)>> \o acc.unique_forms,
          duplicates |-> acc.duplicates]

\* one turn of main's loop
DedupStep(acc, f, sig, desc_map) ==
    IF sig \in acc.seen
    THEN [acc EXCEPT !.duplicates = @ + 1]
    ELSE [seen |-> acc.seen \cup {sig},
          unique_forms |-> Append(acc.unique_forms, Annotate(f, desc_map)),
          duplicates |-> acc.duplicates]

\* main's loop over forms: seen, unique_forms, duplicates
RECURSIVE DedupLoop(_, _, _)
DedupLoop(fs, desc_map, acc) ==
    IF fs = <<>> THEN acc
    ELSE DedupLoop(Tail(fs), desc_map, DedupStep(acc, fs[1], form_signature(fs[1]), desc_map))

ConsolidateForms(fs, endpoints_data) ==
    DedupLoop(fs, build_description_map(endpoints_data),
              [seen |-> {}, unique_forms |-> <<>>, duplicates |-> 0])

-----------------------------------------------------------------------------
(* The inputs the consolidator is run on *)

\* texts
T_login == <<"/", "l", "o", "g", "i", "n">>
T_abs_login_slash == <<"h", "t", "t", "p", ":", "/", "/", "t", "/", "l", "o", "g", "i", "n", "/">>
T_abs_login == <<"h", "t", "t", "p", ":", "/", "/", "t", "/", "l", "o", "g", "i", "n">>
T_abs_root == <<"h", "t", "t", "p", ":", "/", "/", "t", "/">>
T_abs_a == <<"h", "t", "t", "p", ":", "/", "/", "t", "/", "a">>
T_abs_a_slash == <<"h", "t", "t", "p", ":", "/", "/", "t", "/", "a", "/">>
T_abs_x_login == <<"h", "t", "t", "p", ":", "/", "/", "t", "/", "x", "/", "l", "o", "g", "i", "n">>
T_a == <<"/", "a">>
T_a_slashes == <<"/", "a", "/", "/">>
T_POST == <<"P", "O", "S", "T">>
T_post == <<"p", "o", "s", "t">>
T_get == <<"g", "e", "t">>
T_user == <<"u", "s", "e", "r">>
T_text == <<"t", "e", "x", "t">>
T_q == <<"q">>

UserInput == [name |-> T_user, type |-> T_text, required |-> TRUE]
QInput == [name |-> T_q, type |-> T_text]

\* forms as analyze_endpoint / analyze_structure write them, and as a previous
\* consolidator run leaves them (with feedback)
FormPool ==
    { [action |-> T_login, method |-> T_POST, inputs |-> <<UserInput>>],
      [action |-> T_abs_login_slash, method |-> T_post, inputs |-> <<UserInput>>],
      [action |-> T_a_slashes, method |-> T_get, inputs |-> <<>>, feedback |-> "kept"],
      [action |-> <<>>, method |-> T_get, inputs |-> <<QInput, UserInput>>],
      [action |-> <<>>, method |-> T_get, inputs |-> <<UserInput, QInput>>] }

\* endpoints.json contents
LoginSqli == [url |-> T_abs_login, description |-> "SQLi risk"]
EmptyA == [url |-> T_abs_a, description |-> ""]
EndpointsPool ==
    { [endpoints |-> <<T_abs_login>>,
       attack_surfaces |-> <<LoginSqli>>],
      [endpoints |-> <<>>,
       attack_surfaces |-> <<[url |-> T_abs_root, description |-> "Root risk"],
                             [url |-> T_abs_a, description |-> "XSS risk"]>>],
      [endpoints |-> <<T_abs_a_slash>>,
       attack_surfaces |-> <<EmptyA, [url |-> T_abs_x_login, description |-> "Path risk"],
                             LoginSqli>>] }

\* sequences over S of length at most n
RECURSIVE SeqsUpTo(_, _)
SeqsUpTo(S, n) ==
    IF n = 0 THEN {<<>>}
    ELSE LET shorter == SeqsUpTo(S, n - 1)
         IN shorter \cup {Append(q, x) : q \in {r \in shorter : Len(r) = n - 1}, x \in S}

\* a structure file that carries more than the scanner writes: a second
\* top-level key and a form with a field of its own
TaggedStructure ==
    [forms |-> << [action |-> T_abs_login, method |-> T_post,
                   inputs |-> <<QInput, UserInput>>, id |-> "f1"] >>,
     target |-> T_abs_root]

\* structure.json contents: the scanner writes {"forms": [...]}
StructurePool == {[forms |-> fs] : fs \in SeqsUpTo(FormPool, MaxForms)} \cup {TaggedStructure}

\* a directory holding any subset of the two files
FileSystems ==
    {[n \in {} |-> 0]}
    \cup {[n \in {"structure.json"} |-> st] : st \in StructurePool}
    \cup {[n \in {"endpoints.json"} |-> e] : e \in EndpointsPool}
    \cup {[n \in {"structure.json", "endpoints.json"} |->
              IF n = "structure.json" THEN st ELSE e] : st \in StructurePool, e \in EndpointsPool}

-----------------------------------------------------------------------------
(* update_structure.py: main() *)

\* os.path.exists(path)
Exists(fsys, path) == path \in DOMAIN fsys

\* a slip that takes the snapshot after structure.json was overwritten
WriteBack_snapshot_after(fsys, baks, now, backup, loaded, res) ==
    [cfs |-> SetKey(fsys, "structure.json",
                    SetKey(fsys["structure.json"], "forms", res.unique_forms)),
     backups |-> IF backup
                 THEN SetKey(baks, now, SetKey(fsys["structure.json"], "forms", res.unique_forms))
                 ELSE baks,
     report |-> [outcome |-> "updated",
                 loaded |-> loaded,
                 duplicates |-> res.duplicates,
                 unique |-> Len(res.unique_forms)]]

\* a slip that writes a fresh {"forms": [...]} object in place of the loaded one
WriteBack_forms_only(fsys, baks, now, backup, loaded, res) ==
    [cfs |-> SetKey(fsys, "structure.json", [forms |-> res.unique_forms]),
     backups |-> IF backup THEN SetKey(baks, now, fsys["structure.json"]) ELSE baks,
     report |-> [outcome |-> "updated",
                 loaded |-> loaded,
                 duplicates |-> res.duplicates,
                 unique |-> Len(res.unique_forms)]]

\* main() after the loop: structure['forms'] = unique_forms, the snapshot
\* (re-read from disk before structure.json is overwritten) and the write
WriteBack(fsys, baks, now, backup, loaded, res) ==
    [cfs |-> SetKey(fsys, "structure.json",
                    SetKey(fsys["structure.json"], "forms", res.unique_forms)),
     backups |-> IF backup THEN SetKey(baks, now, fsys["structure.json"]) ELSE baks,
     report |-> [outcome |-> "updated",
                 loaded |-> loaded,
                 duplicates |-> res.duplicates,
                 unique |-> Len(res.unique_forms)]]

\* structure.get('forms', [])
LoadedForms(fsys) == Get(fsys["structure.json"], "forms", <<>>)

\* main() from load_json on, both files present
RunLoaded(fsys, baks, now, backup) ==
    WriteBack(fsys, baks, now, backup, Len(LoadedForms(fsys)),
              ConsolidateForms(LoadedForms(fsys), fsys["endpoints.json"]))

\* a slip that takes the snapshot before looking for endpoints.json
main_snapshot_first(fsys, baks, now, backup) ==
    IF ~Exists(fsys, "structure.json")
    THEN [cfs |-> fsys, backups |-> baks, report |-> [outcome |-> "structure.json not found"]]
    ELSE IF ~Exists(fsys, "endpoints.json")
    THEN [cfs |-> fsys,
          backups |-> IF backup THEN SetKey(baks, now, fsys["structure.json"]) ELSE baks,
          report |-> [outcome |-> "endpoints.json not found"]]
    ELSE RunLoaded(fsys, baks, now, backup)

\* main(): the files, snapshots and printed report it leaves
main(fsys, baks, now, backup) ==
    IF ~Exists(fsys, "structure.json")
    THEN [cfs |-> fsys, backups |-> baks, report |-> [outcome |-> "structure.json not found"]]
    ELSE IF ~Exists(fsys, "endpoints.json")
    THEN [cfs |-> fsys, backups |-> baks, report |-> [outcome |-> "endpoints.json not found"]]
    ELSE RunLoaded(fsys, baks, now, backup)

\* one invocation of the command; main() returns None on every path, so the
\* interpreter exits with status 0
Consolidate(backup) ==
    /\ runs < MaxRuns
    /\ \E out \in {main(cfs, backups, clock, backup)} :
          /\ cfs' = out.cfs
          /\ backups' = out.backups
          /\ report' = out.report
    /\ runs' = runs + 1
    /\ argv' = [backup |-> backup]
    /\ exitCode' = 0
    /\ \E later \in {clock, clock + 1} : clock' = later
    /\ UNCHANGED procs
    /\ UNCHANGED svars
    /\ UNCHANGED call

\* ---- main() step by step, for invocations that run at the same time ----
\* The script takes no lock and creates no lock file: between its reads
\* (lines 107-115) and its writes (lines 164, 167) any other process can run.

Procs == 1..MaxProcs

NotStarted == [at |-> "idle", read |-> [n \in {} |-> 0], backup |-> FALSE]

\* lines 96-118: parse the command line, look for the two files, load them
Load(p, backup) ==
    /\ procs[p].at = "idle"
    /\ argv' = [backup |-> backup]
    /\ IF Exists(cfs, "structure.json") /\ Exists(cfs, "endpoints.json")
       THEN /\ procs' = [procs EXCEPT ![p] = [at |-> "loaded", read |-> cfs, backup |-> backup]]
            /\ UNCHANGED <<report, runs, exitCode>>
       ELSE /\ procs' = [procs EXCEPT ![p] = [at |-> "done", read |-> cfs, backup |-> backup]]
            /\ report' = main(cfs, backups, clock, backup).report
            /\ runs' = runs + 1
            /\ exitCode' = 0
    /\ UNCHANGED <<cfs, backups, clock>>
    /\ UNCHANGED svars
    /\ UNCHANGED call

\* lines 162-165: the snapshot is a fresh read of the file on disk
Snapshot(p) ==
    /\ procs[p].at = "loaded"
    /\ procs[p].backup
    /\ backups' = SetKey(backups, clock, cfs["structure.json"])
    /\ procs' = [procs EXCEPT ![p].at = "snapshot"]
    /\ UNCHANGED <<cfs, clock, runs, argv, report, exitCode>>
    /\ UNCHANGED svars
    /\ UNCHANGED call

\* lines 120-160 on what was loaded, then line 167
Save(p) ==
    /\ \/ procs[p].at = "loaded" /\ ~procs[p].backup
       \/ procs[p].at = "snapshot"
    /\ \E out \in {RunLoaded(procs[p].read, backups, clock, FALSE)} :
          /\ cfs' = SetKey(cfs, "structure.json", out.cfs["structure.json"])
          /\ report' = out.report
    /\ procs' = [procs EXCEPT ![p].at = "done"]
    /\ runs' = runs + 1
    /\ exitCode' = 0
    /\ \E later \in {clock, clock + 1} : clock' = later
    /\ UNCHANGED <<backups, argv>>
    /\ UNCHANGED svars
    /\ UNCHANGED call

-----------------------------------------------------------------------------
(* zap.py: the Scan Session *)

\* enumerate_subdomains' candidate prefixes; the model probes the first MaxPrefixes of them
AllPrefixes == <<"www", "admin", "api", "dev", "test", "staging">>
common_prefixes ==
    SubSeq(AllPrefixes, 1, IF MaxPrefixes < Len(AllPrefixes) THEN MaxPrefixes ELSE Len(AllPrefixes))

\* urlparse(self.target_url).netloc
Domain == "example.com"

\* what the outside world can answer
Schemes == {"http", "https", "ftp"}
Urls == {"http://example.com/", "http://example.com/login"}
AlertPool ==
    { [url |-> "http://example.com/login", param |-> "user", attack |-> "' OR 1=1", evidence |-> "500",
       risk |-> "High", confidence |-> "Medium", description |-> "SQLi risk", solution |-> "bind",
       cweid |-> "89"],
      [url |-> "http://example.com/", param |-> "", attack |-> "", evidence |-> "",
       risk |-> "Low", confidence |-> "High", description |-> "", solution |-> "",
       cweid |-> "16"] }

\* the <form> tags of each page
PageForms(url) == IF url = "http://example.com/login" THEN <<"login-form">> ELSE <<>>

\* one line of scan.log
Line(level, msg, arg) == [level |-> level, msg |-> msg, arg |-> arg]
Logged(fs, line) == [fs EXCEPT !["scan.log"] = @ \cup {line}]

\* save_results(filename, data): a failed write is logged and swallowed
\* (__init__ has opened scan.log in output_dir, so the directory exists and is
\* writable: the sessions of the model have writes that succeed)
WriteOutcomes == {TRUE}
save_results(fs, filename, data, written) ==
    IF written THEN SetKey(fs, filename, data)
    ELSE Logged(fs, Line("ERROR", "Error saving results", filename))

\* a slip that copies risk and confidence into each other's field
AttackSurface_swapped(alert) ==
    [url |-> alert.url, param |-> alert.param, attack |-> alert.attack,
     evidence |-> alert.evidence, risk |-> alert.confidence, confidence |-> alert.risk,
     description |-> alert.description, solution |-> alert.solution]

\* the record discover_endpoints appends for one alert
AttackSurface(alert) ==
    [url |-> alert.url, param |-> alert.param, attack |-> alert.attack,
     evidence |-> alert.evidence, risk |-> alert.risk, confidence |-> alert.confidence,
     description |-> alert.description, solution |-> alert.solution]

\* form_data of analyze_endpoint (inputs carry name, type, id, required) and of
\* analyze_structure (inputs carry name, type)
ExtractForms(url, keys) ==
    [i \in DOMAIN PageForms(url) |-> [page |-> url, tag |-> PageForms(url)[i], input_keys |-> keys]]
EndpointKeys == {"name", "type", "id", "required"}
StructureKeys == {"name", "type"}

\* a slip that takes every answer for a success, whatever its status
validate_url_any_status(scheme, response) ==
    scheme \in {"http", "https"} /\ response \in {"ok", "status_error"}

\* a slip that accepts a candidate whenever its probe was answered
accepted_any_status(response) == response \in {"ok", "status_error"}

\* enumerate_subdomains: response.status_code < 400
accepted(response) == response = "ok"

\* where the crawl loop continues after analyze_endpoint(url) returned
next_url(rest) == IF rest = <<>> THEN "ascan_scan" ELSE "collect"

\* validate_url's result for a scheme and the outcome of its GET
validate_url(scheme, response) == scheme \in {"http", "https"} /\ response = "ok"

\* a slip that goes on with the scan whatever validate_url returned
run_scan_ignoring_validation(valid) == "context"

\* run_scan after validate_url returned
run_scan_after_validate(valid) == IF valid THEN "context" ELSE "failed"

\* where run_scan continues when discover_endpoints' except clause has run
after_discover_error == "probe"
\* where run_scan continues when enumerate_subdomains' except clause has run
after_subdomains_error == "analyze"
\* a slip that lets the exception of analyze_endpoint reach discover_endpoints' except clause
analyze_error_escapes(rest) == after_discover_error

\* where the crawl loop continues when analyze_endpoint's except clause has run
after_analyze_error(rest) == next_url(rest)

\* a slip that lets the exception of analyze_structure escape run_scan
structure_error_escapes == "crashed"

\* where run_scan continues when analyze_structure's except clause has run
after_structure_error == "done"

\* the session state of the specification (section 4.2) at each position of run_scan
Phase(at) ==
    CASE at = "idle" -> "Idle"
      [] at = "validate" -> "Validating"
      [] at = "failed" -> "Failed"
      [] at \in {"context", "spider_scan", "spider_poll", "spider_progress",
                 "spider_results", "collect"} -> "Crawling"
      [] at \in {"ascan_scan", "ascan_poll", "ascan_progress", "alerts"} -> "ActiveScanning"
      [] at = "probe" -> "EnumeratingSubdomains"
      [] at = "analyze" -> "AnalyzingStructure"
      [] at = "done" -> "Completed"

NoScanChange == UNCHANGED cvars /\ UNCHANGED call

\* run_scan is called
StartScan ==
    /\ pc = "idle"
    /\ pc' = "validate"
    /\ sfiles' = Logged(sfiles, Line("INFO", "Starting security scan", ""))
    /\ UNCHANGED <<target, discovered_endpoints, forms, attack_surfaces, subdomains,
                   remote, cursor, net>>
    /\ NoScanChange

\* validate_url and run_scan's test of its result
Validate ==
    /\ pc = "validate"
    /\ \E response \in {"ok", "status_error", "exception"} :
         LET sent == target.scheme \in {"http", "https"}
             valid == validate_url(target.scheme, response)
             line == IF ~sent THEN Line("ERROR", "URL must start with http:// or https://", "")
                     ELSE IF response = "ok" THEN Line("INFO", "URL is valid and accessible", "")
                     ELSE IF response = "status_error"
                          THEN Line("ERROR", "URL returned status code", "")
                     ELSE Line("ERROR", "Error accessing URL", "")
         IN /\ net' = [net EXCEPT !.validation = IF sent THEN response ELSE "not_sent"]
            /\ sfiles' = Logged(sfiles, line)
            /\ pc' = run_scan_after_validate(valid)
    /\ UNCHANGED <<target, discovered_endpoints, forms, attack_surfaces, subdomains,
                   remote, cursor>>
    /\ NoScanChange

\* discover_endpoints' except clause
DiscoverRaised(where) ==
    /\ pc' = after_discover_error
    /\ sfiles' = Logged(sfiles, Line("ERROR", "Error during endpoint discovery", where))
    /\ UNCHANGED <<target, discovered_endpoints, forms, attack_surfaces, subdomains,
                   remote, cursor>>

\* new_context and include_in_context
ConfigureContext ==
    /\ pc = "context"
    /\ \/ /\ pc' = "spider_scan"
          /\ sfiles' = Logged(sfiles, Line("INFO", "Starting endpoint discovery", ""))
          /\ UNCHANGED <<target, discovered_endpoints, forms, attack_surfaces, subdomains,
                         remote, cursor>>
       \/ DiscoverRaised("context")
    /\ UNCHANGED net
    /\ NoScanChange

\* scan_id = self.zap.spider.scan(target_url)
SpiderScan ==
    /\ pc = "spider_scan"
    /\ \/ /\ pc' = "spider_poll"
          /\ UNCHANGED <<target, discovered_endpoints, forms, attack_surfaces, subdomains,
                         sfiles, remote, cursor>>
       \/ DiscoverRaised("spider.scan")
    /\ net' = [net EXCEPT !.lastIo = "none", !.tested = "none"]
    /\ NoScanChange

\* one status query
Polled(n) == [n EXCEPT !.lastIo = "poll"]

\* what the loop test has read; a query that raises returns nothing
Tested(n, status) == [n EXCEPT !.tested = IF status = "raise" THEN "none" ELSE status]

\* a slip that tests the status for being above 0, so that any answer ends the loop
PollTest_any_answer(at, job, status) ==
    /\ pc = at
    /\ net' = Tested(Polled(net), status)
    /\ CASE status \in {"below", "complete"} ->
              /\ pc' = IF job = "spider" THEN "spider_results" ELSE "alerts"
              /\ UNCHANGED <<target, discovered_endpoints, forms, attack_surfaces, subdomains,
                             sfiles, remote, cursor>>
         [] status = "raise" -> DiscoverRaised(job \o ".status")
    /\ NoScanChange

\* the loop test: int(self.zap.<job>.status(id)) < 100
PollTest(at, job, status) ==
    /\ pc = at
    /\ net' = Tested(Polled(net), status)
    /\ CASE status = "below" ->
              /\ pc' = job \o "_progress"
              /\ UNCHANGED <<target, discovered_endpoints, forms, attack_surfaces, subdomains,
                             sfiles, remote, cursor>>
         [] status = "complete" ->
              /\ pc' = IF job = "spider" THEN "spider_results" ELSE "alerts"
              /\ UNCHANGED <<target, discovered_endpoints, forms, attack_surfaces, subdomains,
                             sfiles, remote, cursor>>
         [] status = "raise" -> DiscoverRaised(job \o ".status")
    /\ NoScanChange

\* the loop body: progress = status(id); log; time.sleep(2).
\* (The progress lines, whose text is the percentage, are not kept in the model's log.)
PollBody(at, job) ==
    /\ pc = at
    /\ \/ /\ pc' = job \o "_poll"
          /\ net' = [Polled(net) EXCEPT !.lastIo = "sleep"]
          /\ UNCHANGED <<target, discovered_endpoints, forms, attack_surfaces, subdomains,
                         sfiles, remote, cursor>>
       \/ /\ net' = Tested(Polled(net), "raise")
          /\ DiscoverRaised(job \o ".status")
    /\ NoScanChange

SpiderPoll(status) == PollTest("spider_poll", "spider", status)
SpiderProgress == PollBody("spider_progress", "spider")
AscanPoll(status) == PollTest("ascan_poll", "ascan", status)
AscanProgress == PollBody("ascan_progress", "ascan")

\* urls = self.zap.spider.results(scan_id)
SpiderResults ==
    /\ pc = "spider_results"
    /\ \/ \E urls \in SeqsUpTo(Urls, MaxUrls) :
            /\ remote' = [remote EXCEPT !.urls = urls]
            /\ cursor' = [cursor EXCEPT !.urls = urls]
            /\ pc' = IF urls = <<>> THEN "ascan_scan" ELSE "collect"
            /\ UNCHANGED <<target, discovered_endpoints, forms, attack_surfaces, subdomains,
                           sfiles>>
       \/ DiscoverRaised("spider.results")
    /\ UNCHANGED net
    /\ NoScanChange

\* one turn of "for url in urls": add, log, analyze_endpoint(url)
CollectUrl ==
    /\ pc = "collect"
    /\ cursor.urls # <<>>
    /\ LET url == Head(cursor.urls)
           found == Logged(sfiles, Line("INFO", "Discovered", url))
       IN /\ discovered_endpoints' = discovered_endpoints \cup {url}
          /\ \/ /\ forms' = forms \o ExtractForms(url, EndpointKeys)
                /\ sfiles' = found
                /\ pc' = next_url(Tail(cursor.urls))
             \/ /\ forms' = forms
                /\ sfiles' = Logged(found, Line("WARNING", "Error analyzing", url))
                /\ pc' = after_analyze_error(Tail(cursor.urls))
    /\ cursor' = [cursor EXCEPT !.urls = Tail(cursor.urls)]
    /\ UNCHANGED <<target, attack_surfaces, subdomains, remote, net>>
    /\ NoScanChange

\* ascan_id = self.zap.ascan.scan(target_url)
AscanScan ==
    /\ pc = "ascan_scan"
    /\ \/ /\ pc' = "ascan_poll"
          /\ UNCHANGED <<target, discovered_endpoints, forms, attack_surfaces, subdomains,
                         sfiles, remote, cursor>>
       \/ DiscoverRaised("ascan.scan")
    /\ net' = [net EXCEPT !.lastIo = "none", !.tested = "none"]
    /\ NoScanChange

\* alerts = self.zap.core.alerts(), the append loop and save_results("endpoints.json").
\* list(set) has no defined order: the "endpoints" array is kept as the set of its elements.
FetchAlerts ==
    /\ pc = "alerts"
    /\ \/ \E alerts \in SeqsUpTo(AlertPool, MaxAlerts), written \in WriteOutcomes :
            LET surfaces == attack_surfaces \o [i \in DOMAIN alerts |-> AttackSurface(alerts[i])]
                data == [endpoints |-> discovered_endpoints, attack_surfaces |-> surfaces]
            IN /\ remote' = [remote EXCEPT !.alerts = alerts]
               /\ attack_surfaces' = surfaces
               /\ sfiles' = Logged(save_results(sfiles, "endpoints.json", data, written),
                                   Line("INFO", "Endpoint discovery completed", ""))
               /\ pc' = "probe"
               /\ UNCHANGED <<target, discovered_endpoints, forms, subdomains, cursor>>
       \/ DiscoverRaised("core.alerts")
    /\ UNCHANGED net
    /\ NoScanChange

\* one turn of "for prefix in common_prefixes": an exception of the GET is swallowed
Probe ==
    /\ pc = "probe"
    /\ cursor.prefixes # <<>>
    /\ LET subdomain == <<Head(cursor.prefixes), Domain>>
       IN \E response \in {"ok", "status_error", "exception"} :
            /\ IF accepted(response)
               THEN /\ subdomains' = subdomains \cup {subdomain}
                    /\ sfiles' = Logged(sfiles, Line("INFO", "Found subdomain", subdomain[1]))
               ELSE UNCHANGED <<subdomains, sfiles>>
            /\ cursor' = [cursor EXCEPT !.prefixes = Tail(cursor.prefixes),
                                        !.probed = Append(@, response)]
    /\ UNCHANGED <<pc, target, discovered_endpoints, forms, attack_surfaces, remote, net>>
    /\ NoScanChange

\* after the loop: save_results("subdomains.json"); enumerate_subdomains
\* returns (its locals are gone) and analyze_structure starts
SaveSubdomains ==
    /\ pc = "probe"
    /\ cursor.prefixes = <<>>
    /\ \E written \in WriteOutcomes :
         sfiles' = Logged(save_results(sfiles, "subdomains.json", subdomains, written),
                          Line("INFO", "Subdomain enumeration completed", ""))
    /\ pc' = "analyze"
    /\ cursor' = [cursor EXCEPT !.pending = discovered_endpoints, !.probed = <<>>]
    /\ UNCHANGED <<target, discovered_endpoints, forms, attack_surfaces, subdomains, remote, net>>
    /\ NoScanChange

\* enumerate_subdomains' outer except clause. Inside the loop the bare except
\* swallows everything, so only the lines before the loop can get here.
SubdomainsRaised ==
    /\ pc = "probe"
    /\ cursor.prefixes = common_prefixes
    /\ pc' = after_subdomains_error
    /\ sfiles' = Logged(sfiles, Line("ERROR", "Error during subdomain enumeration", ""))
    /\ cursor' = [cursor EXCEPT !.pending = discovered_endpoints]
    /\ UNCHANGED <<target, discovered_endpoints, forms, attack_surfaces, subdomains, remote, net>>
    /\ NoScanChange

\* one turn of "for endpoint in self.discovered_endpoints" (a set: any order)
AnalyzeEndpoint ==
    /\ pc = "analyze"
    /\ \E endpoint \in cursor.pending :
         /\ cursor' = [cursor EXCEPT !.pending = @ \ {endpoint}]
         /\ \/ /\ forms' = forms \o ExtractForms(endpoint, StructureKeys)
               /\ UNCHANGED sfiles
            \/ /\ forms' = forms
               /\ sfiles' = Logged(sfiles, Line("WARNING", "Error analyzing", endpoint))
    /\ UNCHANGED <<pc, target, discovered_endpoints, attack_surfaces, subdomains, remote, net>>
    /\ NoScanChange

\* run_scan's last line
Completed(fs) == Logged(fs, Line("INFO", "Scan completed successfully", ""))

\* after the loop: save_results("structure.json"); run_scan logs completion
SaveStructure ==
    /\ pc = "analyze"
    /\ cursor.pending = {}
    /\ \E written \in WriteOutcomes :
         sfiles' = Completed(Logged(save_results(sfiles, "structure.json", [forms |-> forms], written),
                                    Line("INFO", "Structure analysis completed", "")))
    /\ pc' = "done"
    /\ UNCHANGED <<target, discovered_endpoints, forms, attack_surfaces, subdomains,
                   remote, cursor, net>>
    /\ NoScanChange

\* analyze_structure's outer except clause. Inside the loop the inner except
\* catches every Exception, so only the lines before the loop can get here.
StructureRaised ==
    /\ pc = "analyze"
    /\ cursor.pending = discovered_endpoints
    /\ pc' = after_structure_error
    /\ sfiles' = Completed(Logged(sfiles, Line("ERROR", "Error during structure analysis", "")))
    /\ UNCHANGED <<target, discovered_endpoints, forms, attack_surfaces, subdomains,
                   remote, cursor, net>>
    /\ NoScanChange

-----------------------------------------------------------------------------
(* Specifications *)

\* SecurityScanner.__init__: empty collections; logging.FileHandler opens scan.log
ScanConstructed(scheme) ==
    /\ pc = "idle"
    /\ target = [scheme |-> scheme]
    /\ discovered_endpoints = {}
    /\ forms = <<>>
    /\ attack_surfaces = <<>>
    /\ subdomains = {}
    /\ sfiles = [n \in {"scan.log"} |-> {}]
    /\ remote = [urls |-> <<>>, alerts |-> <<>>]
    /\ cursor = [urls |-> <<>>, prefixes |-> common_prefixes, pending |-> {}, probed |-> <<>>]
    /\ net = [validation |-> "none", lastIo |-> "none", tested |-> "none"]

\* the consolidator before its first invocation
ConsolidatorIdle(fsys) ==
    /\ cfs = fsys
    /\ backups = [t \in {} |-> 0]
    /\ clock = 0
    /\ runs = 0
    /\ argv = [backup |-> FALSE]
    /\ report = [outcome |-> "none"]
    /\ exitCode = 0
    /\ procs = [p \in Procs |-> NotStarted]

\* no pure function is being called on its own
NoCall == call = [fn |-> "none", arg |-> <<>>, ret |-> <<>>]

InitConsolidator ==
    /\ \E fsys \in FileSystems : ConsolidatorIdle(fsys)
    /\ ScanConstructed("https")
    /\ NoCall

NextConsolidator == \E backup \in BOOLEAN : Consolidate(backup)

SpecConsolidator == InitConsolidator /\ [][NextConsolidator]_vars

\* invocations started side by side on one directory
NextConcurrent ==
    \E p \in Procs :
        \/ \E backup \in BOOLEAN : Load(p, backup)
        \/ Snapshot(p)
        \/ Save(p)

SpecConcurrent == InitConsolidator /\ [][NextConcurrent]_vars

InitScan ==
    /\ \E scheme \in Schemes : ScanConstructed(scheme)
    /\ ConsolidatorIdle([n \in {} |-> 0])
    /\ NoCall

NextScan ==
    \/ StartScan
    \/ Validate
    \/ ConfigureContext
    \/ SpiderScan
    \/ \E status \in {"below", "complete", "raise"} : SpiderPoll(status)
    \/ SpiderProgress
    \/ SpiderResults
    \/ CollectUrl
    \/ AscanScan
    \/ \E status \in {"below", "complete", "raise"} : AscanPoll(status)
    \/ AscanProgress
    \/ FetchAlerts
    \/ Probe
    \/ SaveSubdomains
    \/ SubdomainsRaised
    \/ AnalyzeEndpoint
    \/ SaveStructure
    \/ StructureRaised

SpecScan == InitScan /\ [][NextScan]_vars

\* Every step of run_scan returns or raises, and each job's status query
\* eventually answers 100.
SpecScanFair ==
    /\ InitScan
    /\ [][NextScan]_vars
    /\ WF_vars(NextScan)
    /\ SF_vars(SpiderPoll("complete"))
    /\ SF_vars(AscanPoll("complete"))

\* the raw action strings normalize_action is called on: every string over a
\* small alphabet up to MaxLen characters, and the actions of section 8
ActionAlphabet == {"/", "a", ":"}
T_host_a_b_slash == <<"h", "t", "t", "p", ":", "/", "/", "h", "o", "s", "t", "/", "a", "/", "b", "/">>
T_a_b == <<"a", "/", "b">>
T_host == <<"h", "t", "t", "p", ":", "/", "/", "h", "o", "s", "t">>
T_a_query == <<"/", "a", "/", "?", "q">>
ActionTexts ==
    SeqsUpTo(ActionAlphabet, MaxLen)
    \cup {T_host_a_b_slash, T_a_b, T_host, T_a_query, T_login, T_abs_login_slash, T_a_slashes}

\* norm_action = normalize_action(action), on its own
CallNormalize ==
    /\ call.fn = "pending"
    /\ call' = [fn |-> "normalize_action", arg |-> call.arg, ret |-> normalize_action(call.arg)]
    /\ UNCHANGED cvars
    /\ UNCHANGED svars

InitNormalize ==
    /\ \E action \in ActionTexts : call = [fn |-> "pending", arg |-> action, ret |-> <<>>]
    /\ ScanConstructed("https")
    /\ ConsolidatorIdle([n \in {} |-> 0])

NextNormalize == CallNormalize

SpecNormalize == InitNormalize /\ [][NextNormalize]_vars

\* the attack-surface records the description index is built from: two urls
\* with the path '/login', two urls that end in '/login' and a relative url
T_abs_y_login == <<"h", "t", "t", "p", ":", "/", "/", "t", "/", "y", "/", "l", "o", "g", "i", "n">>
T_rel_login == <<"l", "o", "g", "i", "n">>
SurfacePool ==
    { LoginSqli,
      [url |-> T_abs_login_slash, description |-> "Late risk"],
      [url |-> T_abs_x_login, description |-> ""],
      [url |-> T_abs_y_login, description |-> "Path risk"],
      [url |-> T_rel_login, description |-> "Rel risk"] }
IndexedCatalogs ==
    {[endpoints |-> es, attack_surfaces |-> surfaces] :
        es \in {<<>>, <<T_abs_login>>}, surfaces \in SeqsUpTo(SurfacePool, MaxSurfaces)}
\* the forms the loop body is run on
AnnotatedForms ==
    { [action |-> T_login, method |-> T_POST, inputs |-> <<UserInput>>],
      [action |-> T_abs_login_slash, method |-> T_post, inputs |-> <<UserInput>>,
       feedback |-> "kept"],
      [action |-> <<>>, method |-> T_get, inputs |-> <<>>] }

\* desc_map = build_description_map(endpoints) and the body of main's loop for
\* one kept form, on their own
CallAnnotate ==
    /\ call.fn = "to annotate"
    /\ \E desc_map \in {build_description_map(call.arg.endpoints)} :
          call' = [fn |-> "annotated", arg |-> call.arg,
                   ret |-> [desc_map |-> desc_map, form |-> Annotate(call.arg.form, desc_map)]]
    /\ UNCHANGED cvars
    /\ UNCHANGED svars

InitAnnotate ==
    /\ \E f \in AnnotatedForms, e \in IndexedCatalogs :
          call = [fn |-> "to annotate", arg |-> [form |-> f, endpoints |-> e], ret |-> <<>>]
    /\ ScanConstructed("https")
    /\ ConsolidatorIdle([n \in {} |-> 0])

NextAnnotate == CallAnnotate

SpecAnnotate == InitAnnotate /\ [][NextAnnotate]_vars

-----------------------------------------------------------------------------
(* Properties of the Structure Consolidator *)

\* the catalog on disk
Catalog(fsys) == Get(fsys["structure.json"], "forms", <<>>)

\* an invocation that found both files
Updated == report.outcome = "updated"

\* the signature of a written form: its (already normalized) action, its
\* upper-cased trimmed method and the sorted (name, type, required) of its inputs
WrittenSignature(form) ==
    << Get(form, "action", <<>>),
       Strip(Upper(Get(form, "method", <<>>))),
       Sorted([i \in DOMAIN Get(form, "inputs", <<>>) |-> InputSig(form.inputs[i])]) >>

\* C1: after a consolidator run no two forms of the written catalog share the
\* canonical signature (normalized action, upper-cased trimmed method, sorted
\* inputs); the forms '/login' POST and 'http://t/login/' post collapse to one.
C1_OneFormPerSignature ==
    Updated =>
        \A i, j \in DOMAIN Catalog(cfs) :
            i # j => WrittenSignature(Catalog(cfs)[i]) # WrittenSignature(Catalog(cfs)[j])

\* a second invocation on the output of a first one that found both files
Rerun == runs >= 1 /\ runs' = runs + 1 /\ Updated

\* C2: the consolidator is idempotent: a rerun on its own output with the same
\* endpoints file leaves the catalog as it is, removes no duplicate and keeps
\* the number of surviving forms.
C2_Idempotent ==
    [][Rerun => /\ cfs' = cfs
                /\ report'.duplicates = 0
                /\ report'.unique = report.unique]_vars

\* the forms of fs that main's loop keeps, as positions of fs
Kept(fs) == {i \in DOMAIN fs : ~IsDuplicate(fs, i)}

\* the position in the output of the kept form at position i, kept = Kept(fs)
Rank(kept, i) == Cardinality({j \in kept : j <= i})

\* C3: a form that has a non-empty feedback after one run and survives a rerun
\* with the same endpoints file has the same feedback after the rerun.
C3_FeedbackStable ==
    [][Rerun =>
        \E kept \in {Kept(Catalog(cfs))} :
            \A i \in kept :
                Get(Catalog(cfs)[i], "feedback", "") # "" =>
                    Get(Catalog(cfs')[Rank(kept, i)], "feedback", "")
                        = Catalog(cfs)[i].feedback]_vars

\* an invocation that reads both files
Reads == runs' = runs + 1 /\ Exists(cfs, "structure.json") /\ Exists(cfs, "endpoints.json")

C10_MissingInputNoWrite ==
    [][(runs' = runs + 1 /\ ~(Exists(cfs, "structure.json") /\ Exists(cfs, "endpoints.json")))
        => cfs' = cfs /\ backups' = backups]_vars

\* C10's case: --backup was given, structure.json exists, endpoints.json does not
C10_Witness ==
    /\ runs >= 1
    /\ argv.backup
    /\ report.outcome = "endpoints.json not found"
    /\ Exists(cfs, "structure.json")
    /\ Len(Catalog(cfs)) >= 1

\* forms that differ at most in the order of their inputs lists
Count(seq, x) == Cardinality({i \in DOMAIN seq : seq[i] = x})
Reordered(a, b) == Len(a) = Len(b) /\ \A i \in DOMAIN a : Count(a, a[i]) = Count(b, a[i])
SameUpToInputOrder(f, g) ==
    f.action = g.action /\ f.method = g.method /\ Reordered(f.inputs, g.inputs)

\* the forms of fs with no earlier form that is the same up to the order of inputs
FirstsUpToInputOrder(fs) ==
    {i \in DOMAIN fs : ~\E j \in 1..(i - 1) : SameUpToInputOrder(fs[j], fs[i])}

\* C14: the signature of a form does not depend on the order of its inputs:
\* forms with equal action and method whose inputs are permutations of each
\* other have equal signatures, and the consolidator keeps only the first.
C14_InputOrderIrrelevant ==
    [][Reads =>
        /\ \A i, j \in DOMAIN Catalog(cfs) :
              SameUpToInputOrder(Catalog(cfs)[i], Catalog(cfs)[j])
                  => form_signature(Catalog(cfs)[i]) = form_signature(Catalog(cfs)[j])
        /\ Len(Catalog(cfs')) <= Cardinality(FirstsUpToInputOrder(Catalog(cfs)))]_vars

\* C14's case: the snapshot holds two forms with inputs [q, user] and
\* [user, q], and the catalog written from it holds one form
C14_Witness ==
    /\ Updated
    /\ Len(Catalog(cfs)) = 1
    /\ \E t \in DOMAIN backups :
          /\ Len(backups[t].forms) = 2
          /\ backups[t].forms[1].inputs = <<QInput, UserInput>>
          /\ backups[t].forms[2].inputs = <<UserInput, QInput>>

\* the description the index holds for a path ("" when it holds none)
Indexed(fsys, path) == ExactDesc(build_description_map(fsys["endpoints.json"]), path)

\* C15: exact matches take priority over fuzzy matches: when the index maps
\* the normalized action of a surviving form to a non-empty description, the
\* form's feedback is that description, whatever an earlier entry that matches
\* by suffix carries.
C15_ExactBeforeFuzzy ==
    [][Reads =>
        \E kept \in {Kept(Catalog(cfs))} :
            \A i \in kept :
                \E description \in {Indexed(cfs, normalize_action(Catalog(cfs)[i].action))} :
                    description # "" => Catalog(cfs')[Rank(kept, i)].feedback = description]_vars

\* C15's case: '/x/login' ("Path risk") is indexed before '/login' ("SQLi
\* risk") and matches '/login' by suffix; the form '/login' carries "SQLi risk"
C15_Witness ==
    /\ Updated
    /\ Len(cfs["endpoints.json"].attack_surfaces) = 3
    /\ cfs["endpoints.json"].attack_surfaces[2].description = "Path risk"
    /\ \E i \in DOMAIN Catalog(cfs) :
          Catalog(cfs)[i].action = T_login /\ Catalog(cfs)[i].feedback = "SQLi risk"

\* the non-empty descriptions of the attack-surface records
Descriptions(fsys) ==
    {fsys["endpoints.json"].attack_surfaces[k].description :
        k \in DOMAIN fsys["endpoints.json"].attack_surfaces} \ {""}

C11_ExitStatusTellsOutcome == runs >= 1 => (exitCode = 0 <=> Updated)

\* a non-empty string that begins with '/' and ends with '/' only when it is '/'
WellShaped(path) ==
    /\ path # <<>>
    /\ path[1] = "/"
    /\ path[Len(path)] = "/" => path = <<"/">>

\* C12: for every raw action string normalize_action returns a non-empty
\* string that begins with '/' and does not end with '/' unless it is '/'.
C12_NormalizedShape == call.fn = "normalize_action" => WellShaped(call.ret)

\* the steps of section 4.7: the path component of an absolute URL (scheme and
\* host present) and the raw string otherwise, a '/' prefixed when missing,
\* one trailing '/' removed unless the result is '/'
IsAbsoluteUrl(p) == p.scheme # <<>> /\ p.netloc # <<>>
WithLeadingSlash(t) == IF t # <<>> /\ t[1] = "/" THEN t ELSE <<"/">> \o t
WithoutOneTrailingSlash(t) ==
    IF t # <<"/">> /\ t[Len(t)] = "/" THEN SubSeq(t, 1, Len(t) - 1) ELSE t
PathOrRaw(action, p) == IF IsAbsoluteUrl(p) THEN p.path ELSE action
Described(action) ==
    IF action = <<>> THEN <<"/">>
    ELSE WithoutOneTrailingSlash(WithLeadingSlash(PathOrRaw(action, UrlParse(action))))

\* C13: normalize_action returns '/' for an empty action, and otherwise the
\* path of an absolute URL or the raw string, with a '/' prefixed when missing
\* and exactly one trailing '/' removed unless the result is '/':
\* 'http://host/a/b/' gives '/a/b', '' gives '/', 'a/b' gives '/a/b', '/' gives '/'.
C13_NormalizeAsDescribed ==
    call.fn = "normalize_action" =>
        /\ call.ret = Described(call.arg)
        /\ call.arg = T_host_a_b_slash => call.ret = <<"/", "a", "/", "b">>
        /\ call.arg = <<>> => call.ret = <<"/">>
        /\ call.arg = T_a_b => call.ret = <<"/", "a", "/", "b">>
        /\ call.arg = <<"/">> => call.ret = <<"/">>
        /\ call.arg = <<"a", "/", "/">> => call.ret = <<"/", "a", "/">>

\* C13's case: the absolute URL of section 8 has been normalized
C13_Witness ==
    /\ call.fn = "normalize_action"
    /\ call.arg = T_host_a_b_slash
    /\ call.ret = <<"/", "a", "/", "b">>

\* C28: a run with --backup that found both files leaves, under the name of
\* its time stamp, a snapshot equal to structure.json as it was before the
\* run, and touches no other snapshot; a run without the flag, or without
\* its inputs, leaves the snapshots as they are.
C28_SnapshotIsOriginal ==
    [][(runs' = runs + 1) =>
          IF Reads /\ argv'.backup
          THEN /\ DOMAIN backups' = DOMAIN backups \cup {clock}
               /\ backups'[clock] = cfs["structure.json"]
               /\ \A t \in DOMAIN backups \ {clock} : backups'[t] = backups[t]
          ELSE backups' = backups]_vars

\* C28's case: the snapshot holds two forms of one signature, none with
\* feedback, and the written catalog holds one form with feedback
C28_Witness ==
    /\ Updated /\ argv.backup /\ runs = 1
    /\ DOMAIN backups = {0}
    /\ Len(backups[0].forms) = 2
    /\ \A i \in DOMAIN backups[0].forms : "feedback" \notin DOMAIN backups[0].forms[i]
    /\ backups[0].forms[2].action = T_abs_login_slash
    /\ Len(Catalog(cfs)) = 1
    /\ Catalog(cfs)[1].feedback = "SQLi risk"

\* C30: a run writes nothing to endpoints.json, creates and removes no file,
\* keeps every top-level key of structure.json other than "forms" as it was,
\* and gives every surviving form the fields it was read with, with the same
\* values, apart from action and feedback.
C30_OnlyActionAndFeedback ==
    [][(runs' = runs + 1) =>
          /\ DOMAIN cfs' = DOMAIN cfs
          /\ Exists(cfs, "endpoints.json") => cfs'["endpoints.json"] = cfs["endpoints.json"]
          /\ Reads =>
                /\ DOMAIN cfs'["structure.json"] = DOMAIN cfs["structure.json"] \cup {"forms"}
                /\ \A key \in DOMAIN cfs["structure.json"] \ {"forms"} :
                      cfs'["structure.json"][key] = cfs["structure.json"][key]
                /\ \E kept \in {Kept(Catalog(cfs))} :
                      \A i \in kept :
                         /\ DOMAIN Catalog(cfs')[Rank(kept, i)]
                               = DOMAIN Catalog(cfs)[i] \cup {"action", "feedback"}
                         /\ \A field \in DOMAIN Catalog(cfs)[i] \ {"action", "feedback"} :
                               Catalog(cfs')[Rank(kept, i)][field] = Catalog(cfs)[i][field]]_vars

\* C30's case: a structure file with a second top-level key and a form with
\* a field of its own has been consolidated
C30_Witness ==
    /\ Updated
    /\ Exists(cfs, "structure.json")
    /\ "target" \in DOMAIN cfs["structure.json"]
    /\ cfs["structure.json"].target = T_abs_root
    /\ Len(Catalog(cfs)) = 1
    /\ Catalog(cfs)[1].id = "f1"
    /\ Catalog(cfs)[1].action = T_login
    /\ Catalog(cfs)[1].inputs = <<QInput, UserInput>>
    /\ Catalog(cfs)[1].feedback = "SQLi risk"

\* an invocation that has read the catalog and not yet written it
Between(p) == procs[p].at \in {"loaded", "snapshot"}

\* every invocation has returned
AllDone == \A p \in Procs : procs[p].at = "done"

\* the files after main() was run twice, one run after the other, on fsys
TwiceInTurn(fsys) == main(main(fsys, backups, clock, FALSE).cfs, backups, clock, FALSE).cfs

\* when every invocation has returned, the catalog is the one of two runs in turn
FinalAsInTurn == AllDone => \E p \in Procs : cfs = TwiceInTurn(procs[p].read)

\* C29: two invocations on the same files do not interleave: none reads the
\* catalog while another is between its read and its write, and when both
\* have returned the catalog is what two runs in turn leave, starting from
\* what the first of them read.
C29_NoInterleaving ==
    /\ [][\A p \in Procs :
            (procs[p].at = "idle" /\ procs'[p].at # "idle")
                => \A q \in Procs \ {p} : ~Between(q)]_vars
    /\ []FinalAsInTurn

-----------------------------------------------------------------------------
(* Properties of the description index and of the feedback attachment *)

Annotated == call.fn = "annotated"

\* the records of the catalog that have a url, in catalog order
Records(endpoints_data) == SelectSeq(endpoints_data.attack_surfaces, LAMBDA r : r.url # <<>>)

\* the first record, in catalog order, whose url normalizes to the path
FirstRecordFor(records, path) ==
    records[CHOOSE k \in DOMAIN records :
                /\ PathKey(records[k].url) = path
                /\ \A j \in 1..(k - 1) : PathKey(records[j].url) # path]

\* C21: when several attack-surface records normalize to one path, the index
\* maps the path to the description of the first of them in catalog order;
\* a later record for the path does not change it.
C21_FirstSeenWins ==
    Annotated =>
        \A k \in DOMAIN Records(call.arg.endpoints) :
            ExactDesc(call.ret.desc_map, PathKey(Records(call.arg.endpoints)[k].url))
                = FirstRecordFor(Records(call.arg.endpoints),
                                 PathKey(Records(call.arg.endpoints)[k].url)).description

\* C22: the index key of every attack-surface record with a url is
\* normalize_action of that url, so every key begins with '/' and a form
\* whose action is the url finds the entry by exact match.
C22_KeysNormalizedAsActions ==
    Annotated =>
        /\ \A k \in DOMAIN Records(call.arg.endpoints) :
              HasPath(call.ret.desc_map, normalize_action(Records(call.arg.endpoints)[k].url))
        /\ \A i \in DOMAIN call.ret.desc_map : StartsWith(call.ret.desc_map[i].path, <<"/">>)

\* the index entries that match a normalized action by suffix, one way or the other
Matching(desc_map, norm_action) ==
    {i \in DOMAIN desc_map :
        EndsWith(norm_action, desc_map[i].path) \/ EndsWith(desc_map[i].path, norm_action)}

\* neither the exact nor the fuzzy match gives a description
NoDescription(desc_map, norm_action) ==
    /\ ExactDesc(desc_map, norm_action) = ""
    /\ \A i \in Matching(desc_map, norm_action) : desc_map[i].desc = ""

\* C23 as stated: a form for which neither match yields a description is
\* written with feedback equal to the empty string.
C23_NoMatchGivesEmpty ==
    (Annotated /\ NoDescription(call.ret.desc_map, call.ret.form.action))
        => "feedback" \in DOMAIN call.ret.form /\ call.ret.form.feedback = ""

\* C23, amended: no form is written without a feedback field; when neither
\* match yields a description the field keeps the value the form came with
\* and is the empty string for a form that came without one.
C23_NoMatchKeepsOrEmpty ==
    Annotated =>
        /\ "feedback" \in DOMAIN call.ret.form
        /\ NoDescription(call.ret.desc_map, call.ret.form.action)
              => call.ret.form.feedback = Get(call.arg.form, "feedback", "")

\* C23's case: no entry matches '/', and the form came without feedback
C23_Witness ==
    /\ Annotated
    /\ call.arg.form.action = <<>>
    /\ "feedback" \notin DOMAIN call.arg.form
    /\ Len(call.ret.desc_map) >= 2
    /\ call.ret.form.feedback = ""

\* the index entries that come from attack-surface records
FromSurfaces(endpoints_data) ==
    {PathKey(Records(endpoints_data)[k].url) : k \in DOMAIN Records(endpoints_data)}

\* C24: without an exact non-empty match the feedback is the description of
\* the first index entry, in insertion order with the attack-surface entries
\* before the bare endpoints, that matches by suffix and has a non-empty
\* description; matching entries with an empty description are skipped.
C24_FirstFuzzyInOrder ==
    (Annotated /\ ExactDesc(call.ret.desc_map, call.ret.form.action) = "") =>
        /\ \A i \in Matching(call.ret.desc_map, call.ret.form.action) :
              (/\ call.ret.desc_map[i].desc # ""
               /\ \A j \in Matching(call.ret.desc_map, call.ret.form.action) :
                      j < i => call.ret.desc_map[j].desc = "")
                  => call.ret.form.feedback = call.ret.desc_map[i].desc
        /\ \A i, j \in DOMAIN call.ret.desc_map :
              (/\ call.ret.desc_map[i].path \in FromSurfaces(call.arg.endpoints)
               /\ call.ret.desc_map[j].path \notin FromSurfaces(call.arg.endpoints)) => i < j

\* C24's case: '/x/login' (no description), 'login' ("Rel risk") and
\* '/y/login' ("Path risk") all match '/login', which has no entry of its own
C24_Witness ==
    /\ Annotated
    /\ call.ret.form.action = T_login
    /\ Len(call.ret.desc_map) = 3
    /\ call.ret.desc_map[1] = [path |-> <<"/", "x">> \o T_login, desc |-> ""]
    /\ call.ret.desc_map[2].desc = "Rel risk"
    /\ call.ret.desc_map[3].desc = "Path risk"
    /\ call.ret.form.feedback = "Rel risk"

-----------------------------------------------------------------------------
(* Properties of the Scan Session *)

ScanLog == sfiles["scan.log"]

\* validate_url returned False: bad scheme, network failure or status >= 400
ValidationFailed == net.validation \in {"not_sent", "status_error", "exception"}

\* C5 as stated: a failed validation produces no persisted artifact at all.
C5_NoArtifactAtAll == ValidationFailed => DOMAIN sfiles = {}

\* C5, amended: a failed validation halts the session: no crawl, no active
\* scan, no probe and no structure analysis happen, and none of endpoints.json,
\* subdomains.json and structure.json is written; the one file in the output
\* directory is scan.log, which holds the failure.
C5_FailedValidationHalts ==
    ValidationFailed =>
        /\ pc = "failed"
        /\ DOMAIN sfiles = {"scan.log"}
        /\ \E l \in ScanLog : l.level = "ERROR"
        /\ discovered_endpoints = {} /\ forms = <<>>
        /\ attack_surfaces = <<>> /\ subdomains = {}
        /\ remote = [urls |-> <<>>, alerts |-> <<>>]
        /\ cursor = [urls |-> <<>>, prefixes |-> common_prefixes, pending |-> {}, probed |-> <<>>]
        /\ net.lastIo = "none"

\* C5's case: the target answered the validator's GET with a status >= 400
C5_Witness == pc = "failed" /\ net.validation = "status_error"

\* the state that follows each state of section 4.2
Successor(phase) ==
    CASE phase = "Idle" -> "Validating"
      [] phase = "Validating" -> "Crawling"
      [] phase = "Crawling" -> "ActiveScanning"
      [] phase = "ActiveScanning" -> "EnumeratingSubdomains"
      [] phase = "EnumeratingSubdomains" -> "AnalyzingStructure"
      [] phase = "AnalyzingStructure" -> "Completed"
      [] OTHER -> "none"

\* the lines the except clauses of the three phase methods log
PhaseErrors(log) ==
    {l \in log : l.level = "ERROR" /\ l.msg \in {"Error during endpoint discovery",
                                                 "Error during subdomain enumeration",
                                                 "Error during structure analysis"}}

\* C6: an error raised inside a phase after Validating is logged and the
\* session enters the phase that follows; an error during Crawling is
\* followed by ActiveScanning.
C6_ErrorEntersNextPhase ==
    [][PhaseErrors(sfiles'["scan.log"]) # PhaseErrors(ScanLog)
        => Phase(pc') = Successor(Phase(pc))]_vars

\* the active scan (start, status poll or alert listing) raised, and nothing else did
ActiveScanRaised ==
    /\ PhaseErrors(ScanLog) # {}
    /\ \A l \in PhaseErrors(ScanLog) : l.arg \in {"ascan.scan", "ascan.status", "core.alerts"}

\* C7: when the spider completed and endpoints were collected but the active
\* scan raised, the collected endpoints are in endpoints.json once the session
\* is Completed.
C7_PartialEndpointsPersisted ==
    (pc = "done" /\ discovered_endpoints # {} /\ ActiveScanRaised) =>
        /\ "endpoints.json" \in DOMAIN sfiles
        /\ sfiles["endpoints.json"].endpoints = discovered_endpoints

\* C8: the phases run one after another in the order Validating, Crawling,
\* ActiveScanning, EnumeratingSubdomains, AnalyzingStructure, Completed, none
\* skipped or repeated (Failed follows Validating only); the active scan starts
\* only after validation succeeded and every spider result was collected.
C8_PhasesInOrder ==
    /\ [][Phase(pc') # Phase(pc) =>
            \/ Phase(pc') = Successor(Phase(pc))
            \/ Phase(pc) = "Validating" /\ Phase(pc') = "Failed"]_vars
    /\ [](Phase(pc) = "ActiveScanning" =>
            /\ net.validation = "ok"
            /\ cursor.urls = <<>>
            /\ Range(remote.urls) = discovered_endpoints)

\* C9: once validation has succeeded, and given that every call returns or
\* raises and each job's status eventually reports 100, the session reaches
\* Completed, however many of the later phases raised.
C9_ReachesCompleted == (net.validation = "ok") ~> (pc = "done")

\* C9's case: Completed after two phases raised
C9_Witness ==
    /\ pc = "done"
    /\ \E l \in ScanLog : l.msg = "Error during endpoint discovery"
    /\ \E l \in ScanLog : l.msg = "Error during structure analysis"

\* C17: validate_url returns true exactly when the scheme is http or https and
\* the one GET is answered with a status below 400; with another scheme no GET
\* is sent; a network failure gives false, no exception reaches run_scan.
C17_ValidIffAnswered ==
    pc \notin {"idle", "validate"} =>
        /\ pc # "failed" <=> (target.scheme \in {"http", "https"} /\ net.validation = "ok")
        /\ target.scheme \notin {"http", "https"} <=> net.validation = "not_sent"
        /\ net.validation = "exception" => pc = "failed"

\* C17's case: the GET of an https target failed in the network
C17_Witness ==
    pc = "failed" /\ target.scheme = "https" /\ net.validation = "exception"

\* the candidates whose probe, among those made so far, was answered below 400
Answered(probed) == {<<common_prefixes[i], Domain>> : i \in {k \in DOMAIN probed : probed[k] = "ok"}}

AlertsListed == \E l \in ScanLog : l.msg = "Endpoint discovery completed"

\* the fields of an alert that an attack-surface record carries
SurfaceFields ==
    {"url", "param", "attack", "evidence", "risk", "confidence", "description", "solution"}

\* C19: after the active scan the attack-surface list has one record per
\* reported alert, in report order, with url, param, attack, evidence, risk,
\* confidence, description and solution copied; repeated alerts stay repeated.
C19_OneSurfacePerAlert ==
    /\ AlertsListed =>
          /\ Len(attack_surfaces) = Len(remote.alerts)
          /\ \A i \in DOMAIN attack_surfaces :
                /\ DOMAIN attack_surfaces[i] = SurfaceFields
                /\ \A field \in SurfaceFields : attack_surfaces[i][field] = remote.alerts[i][field]
          /\ sfiles["endpoints.json"].attack_surfaces = attack_surfaces
    /\ ~AlertsListed => attack_surfaces = <<>>

\* C19's case: the engine reported the same alert twice
C19_Witness ==
    /\ AlertsListed
    /\ Len(remote.alerts) = 2
    /\ remote.alerts[1] = remote.alerts[2]
    /\ remote.alerts[1].risk = "High"
    /\ Len(attack_surfaces) = 2

\* the warning that names a url
Warned(log, url) == Line("WARNING", "Error analyzing", url) \in log

\* C20: a fetch or parse failure for one discovered endpoint is logged as a
\* warning naming the url and aborts nothing: the url stays in the endpoint
\* collection, contributes no form, and the loop goes on to the later urls, so
\* every result url is collected.
C20_PageFailureIsSkipped ==
    /\ [][\A url \in Urls :
            (Warned(sfiles'["scan.log"], url) /\ ~Warned(ScanLog, url)) =>
                /\ url \in discovered_endpoints'
                /\ forms' = forms
                /\ pc = "collect" =>
                      /\ url = Head(cursor.urls)
                      /\ cursor'.urls = Tail(cursor.urls)
                      /\ pc' = IF cursor'.urls = <<>> THEN "ascan_scan" ELSE "collect"
                /\ pc = "analyze" =>
                      /\ pc' = "analyze"
                      /\ url \notin cursor'.pending]_vars
    /\ [](pc = "ascan_scan" =>
            /\ Range(remote.urls) = discovered_endpoints
            /\ \A url \in discovered_endpoints :
                  Warned(ScanLog, url) \/ \A i \in DOMAIN PageForms(url) :
                                            \E k \in DOMAIN forms : forms[k].tag = PageForms(url)[i])

\* C20's case: the first result url could not be fetched, the second one was
\* collected and its form extracted
C20_Witness ==
    /\ pc = "ascan_scan"
    /\ remote.urls = <<"http://example.com/", "http://example.com/login">>
    /\ Warned(ScanLog, "http://example.com/")
    /\ discovered_endpoints = {"http://example.com/", "http://example.com/login"}
    /\ Len(forms) = 1


\* the positions inside the two polling loops
SpiderLoop == {"spider_poll", "spider_progress"}
AscanLoop == {"ascan_poll", "ascan_progress"}

\* C25: a polling loop is left only by a loop test that read 100, or by an
\* exception; the spider's results and the alerts are fetched only after the
\* test of their job read 100; the loop has no bound (another round is always
\* possible), and while the session is in a loop no later phase has started
\* and no artifact has been written.
C25_LoopEndsOnComplete ==
    /\ [][/\ (pc \in SpiderLoop /\ pc' \notin SpiderLoop) =>
                \/ pc' = "spider_results" /\ net'.tested = "complete"
                \/ pc' = after_discover_error /\ net'.tested = "none"
          /\ (pc \in AscanLoop /\ pc' \notin AscanLoop) =>
                \/ pc' = "alerts" /\ net'.tested = "complete"
                \/ pc' = after_discover_error /\ net'.tested = "none"
          /\ remote'.urls # remote.urls => pc = "spider_results" /\ net.tested = "complete"
          /\ remote'.alerts # remote.alerts => pc = "alerts" /\ net.tested = "complete"]_vars
    /\ [](pc \in {"spider_results", "alerts"} => net.tested = "complete")
    /\ [](pc \in SpiderLoop \cup AscanLoop =>
            /\ DOMAIN sfiles = {"scan.log"}
            /\ subdomains = {} /\ cursor.prefixes = common_prefixes
            /\ net.tested \in {"none", "below"})
    /\ [](pc = "spider_poll" => ENABLED SpiderPoll("below"))
    /\ [](pc = "spider_progress" => ENABLED (SpiderProgress /\ pc' = "spider_poll"))
    /\ [](pc = "ascan_poll" => ENABLED AscanPoll("below"))
    /\ [](pc = "ascan_progress" => ENABLED (AscanProgress /\ pc' = "ascan_poll"))

\* C25's case: both loops have ended on a test that read 100, and the alerts
\* are fetched after urls were
C25_Witness ==
    /\ pc = "alerts"
    /\ net.tested = "complete"
    /\ remote.urls # <<>>

\* C26: a status query is never sent right after another status query of the
\* same job: the monitor is at a query only at the start of the job or after
\* a sleep.
C26_SleepBetweenPolls ==
    pc \in SpiderLoop \cup AscanLoop => net.lastIo \in {"none", "sleep"}


\* how many entries of the session's form list come from the page
Extracted(url) == Cardinality({i \in DOMAIN forms : forms[i].page = url})

\* C27: the forms of a page are appended to the session's form list once:
\* the list never holds more entries from a url than the page has forms.
C27_FormsOncePerUrl ==
    \A url \in Urls : Extracted(url) <= Len(PageForms(url))

=============================================================================
